---- MODULE Spec2Model ----
(***************************************************************************)
(* Constrained portfolio optimisation by a genetic algorithm.              *)
(*                                                                         *)
(* A double is modelled as a pair <<n, d>>:                                *)
(*   d >= 1     the exact rational n/d in lowest terms;                    *)
(*   <<1, 0>>   +infinity,  <<-1, 0>>  -infinity,  <<0, 0>>  NaN,          *)
(*   <<2, 0>>   numeric_limits<double>::max(),                             *)
(*   <<-2, 0>>  numeric_limits<double>::lowest().                          *)
(* Finite arithmetic is exact; every finite model value lies strictly      *)
(* between lowest() and max().                                             *)
(***************************************************************************)
EXTENDS Integers, Sequences, FiniteSets, TLC

VARIABLES
    cfg,            \* GeneticOptimiser's configuration fields and its Portfolio
    pc,             \* position of optimise(): init, eval, repro, done, error
    population,     \* optimise(): population
    fitnesses,      \* optimise(): fitnesses
    best_weights,   \* optimise(): best_weights
    best_fitness,   \* optimise(): best_fitness
    gen,            \* optimise(): gen
    new_pop,        \* optimise(): new_pop
    result,         \* what optimise() returned, or the exception that ended it
    call,           \* the last call of a library function: its arguments and result
    lowest_evaluated \* history: the lowest fitness any evaluation of the loop computed

vars == <<cfg, pc, population, fitnesses, best_weights, best_fitness, gen, new_pop, result, call,
          lowest_evaluated>>

----------------------------------------------------------------------------
(* Bounds of the model *)

MaxPop == 2         \* population_size ranges over 1..MaxPop
MaxGen == 2         \* generations ranges over 0..MaxGen
UGrid == 2          \* uniform draws in [0,1) are k/UGrid, k in 0..UGrid-1

----------------------------------------------------------------------------
(* double arithmetic *)

Abs(x) == IF x < 0 THEN -x ELSE x

RECURSIVE Gcd(_, _)
Gcd(a, b) == IF b = 0 THEN a ELSE Gcd(b, a % b)

Lcm(a, b) == (a \div Gcd(a, b)) * b

\* the rational n/d (d # 0) in lowest terms with a positive denominator
Q(n, d) ==
    LET g == Gcd(Abs(n), Abs(d))
        s == IF d < 0 THEN -1 ELSE 1
    IN  <<(s * n) \div g, (s * d) \div g>>

R(k) == <<k, 1>>
Zero == <<0, 1>>
One == <<1, 1>>
PInf == <<1, 0>>
NInf == <<-1, 0>>
NaN == <<0, 0>>
DBL_MAX == <<2, 0>>
DBL_LOWEST == <<-2, 0>>

IsFinite(x) == x[2] # 0
IsNaN(x) == x = NaN
IsInf(x) == x = PInf \/ x = NInf
Sign(x) == IF x[1] > 0 THEN 1 ELSE IF x[1] < 0 THEN -1 ELSE 0

\* position of a value on the extended line: -inf, lowest, finite, max, +inf
Cls(x) == IF IsFinite(x) THEN 0 ELSE x[1]

\* operator< of double: false whenever an operand is NaN
FLess(a, b) ==
    /\ ~IsNaN(a)
    /\ ~IsNaN(b)
    /\ IF IsFinite(a) /\ IsFinite(b)
          THEN a[1] * b[2] < b[1] * a[2]
          ELSE Cls(a) < Cls(b)

FGreater(a, b) == FLess(b, a)
\* operator== of double
FEq(a, b) == ~IsNaN(a) /\ ~IsNaN(b) /\ a = b
FLeq(a, b) == FLess(a, b) \/ FEq(a, b)

FNeg(a) == <<-a[1], a[2]>>

\* a + b: exact on finite operands; max() and lowest() absorb a finite operand,
\* and overflow to an infinity when added to themselves
FAdd(a, b) ==
    IF IsNaN(a) \/ IsNaN(b) THEN NaN
    ELSE IF IsFinite(a) /\ IsFinite(b)
        THEN LET l == Lcm(a[2], b[2])
             IN  Q(a[1] * (l \div a[2]) + b[1] * (l \div b[2]), l)
    ELSE IF IsFinite(a) THEN b
    ELSE IF IsFinite(b) THEN a
    ELSE IF Sign(a) # Sign(b) THEN (IF IsInf(a) /\ IsInf(b) THEN NaN
                                    ELSE IF IsInf(a) THEN a
                                    ELSE IF IsInf(b) THEN b ELSE Zero)
    ELSE IF Sign(a) > 0 THEN PInf ELSE NInf

FSub(a, b) == FAdd(a, FNeg(b))

\* a * b: exact on finite operands; a non-finite operand keeps its magnitude
FMul(a, b) ==
    IF IsNaN(a) \/ IsNaN(b) THEN NaN
    ELSE IF IsFinite(a) /\ IsFinite(b) THEN Q(a[1] * b[1], a[2] * b[2])
    ELSE IF Sign(a) * Sign(b) = 0 THEN (IF IsInf(a) \/ IsInf(b) THEN NaN ELSE Zero)
    ELSE LET big == IF IsInf(a) \/ IsInf(b) \/ (~IsFinite(a) /\ ~IsFinite(b)) THEN 1 ELSE 2
         IN  <<Sign(a) * Sign(b) * big, 0>>

\* a / b as IEEE division: exact on finite operands with b # 0; x/0 is an
\* infinity and 0/0 is NaN; a non-finite operand keeps its magnitude
FDiv(a, b) ==
    IF IsNaN(a) \/ IsNaN(b) THEN NaN
    ELSE IF IsFinite(a) /\ IsFinite(b)
        THEN (IF b[1] = 0 THEN <<Sign(a), 0>> ELSE Q(a[1] * b[2], a[2] * b[1]))
    ELSE IF ~IsFinite(a) /\ ~IsFinite(b) THEN (IF IsInf(a) /\ IsInf(b) THEN NaN
                                              ELSE IF IsInf(a) THEN <<Sign(a) * Sign(b), 0>>
                                              ELSE IF IsInf(b) THEN Zero
                                              ELSE R(Sign(a) * Sign(b)))
    ELSE IF IsFinite(b) THEN (IF b[1] = 0 THEN <<Sign(a), 0>>
                              ELSE <<Sign(a) * Sign(b) * Abs(a[1]), 0>>)
    ELSE Zero

\* std::fabs
FAbs(a) == <<Abs(a[1]), a[2]>>

\* std::max(a, b) == (a < b) ? b : a
FMax(a, b) == IF FLess(a, b) THEN b ELSE a

\* largest k in lo..hi with k * k <= n, by bisection
RECURSIVE ISqrtIn(_, _, _)
ISqrtIn(n, lo, hi) ==
    IF lo >= hi THEN lo
    ELSE LET mid == (lo + hi + 1) \div 2
         IN  IF mid * mid <= n THEN ISqrtIn(n, mid, hi) ELSE ISqrtIn(n, lo, mid - 1)

\* the integer square root of n >= 0 (46340 is the largest root of a 32-bit n)
ISqrt(n) == ISqrtIn(n, 0, IF n < 46340 THEN n ELSE 46340)

\* std::sqrt of a finite value >= 0: sqrt(n/d) = sqrt(n*d)/d, exact whenever n*d
\* is a perfect square and rounded down to a multiple of 1/d otherwise
FSqrt(a) == IF IsFinite(a) THEN Q(ISqrt(a[1] * a[2]), a[2]) ELSE a

\* std::accumulate(v.begin(), v.end(), 0.0)
RECURSIVE Accumulate(_)
Accumulate(v) == IF v = <<>> THEN Zero ELSE FAdd(Accumulate(SubSeq(v, 1, Len(v) - 1)), v[Len(v)])

----------------------------------------------------------------------------
(* Program constants.  The two tolerances are scaled onto the model's     *)
(* grid and keep their order: 1e-12 < 1e-8 < 1.                            *)

\* Constraints.hpp: const double EPSILON = 1e-8
EPSILON == <<1, 16>>
\* the literal 1e-12 of normalize, random_weights and sharpe_ratio
TINY == <<1, 64>>

\* a call's outcome: a value, or the exception that left it, named by the
\* start of its what() message
Ok(v) == [exc |-> "none", val |-> v]
Throw(e, v) == [exc |-> e, val |-> v]
Raised(r) == r.exc # "none"

----------------------------------------------------------------------------
(* Utils: clip_weights, normalize, random_weights *)

\* std::clamp(w, lo, hi)
Clamp(w, lo, hi) == IF FLess(w, lo) THEN lo ELSE IF FLess(hi, w) THEN hi ELSE w

\* clip_weights bounding the weights from above only: the variant C22 is
\* checked against
clip_weights_upper_only(weights, min_val, max_val) ==
    [i \in 1..Len(weights) |-> IF FLess(max_val, weights[i]) THEN max_val ELSE weights[i]]

clip_weights(weights, min_val, max_val) ==
    [i \in 1..Len(weights) |-> Clamp(weights[i], min_val, max_val)]

\* the guard of normalize: sum < 1e-12
normalize_fails(sum) == FLess(sum, TINY)

\* normalize dividing by the number of weights instead of their sum: the
\* variant C15 is checked against
normalize_by_count(weights) ==
    LET sum == Accumulate(weights)
    IN  IF normalize_fails(sum)
           THEN Throw("Cannot normalize", weights)
           ELSE Ok([i \in 1..Len(weights) |-> FDiv(weights[i], R(Len(weights)))])

normalize(weights) ==
    LET sum == Accumulate(weights)
    IN  IF normalize_fails(sum)
           THEN Throw("Cannot normalize", weights)
           ELSE Ok([i \in 1..Len(weights) |-> FDiv(weights[i], sum)])

\* random_weights(n, gen), draws being the n values dis(gen) produced
random_weights(n, draws) ==
    IF n = 0 THEN Throw("Weight vector size must be > 0", <<>>)
    ELSE LET sum == Accumulate(draws)
         IN  IF FLess(sum, TINY)
                THEN Ok([i \in 1..n |-> FDiv(One, R(n))])
                ELSE Ok([i \in 1..n |-> FDiv(draws[i], sum)])

----------------------------------------------------------------------------
(* Matrix: a record of rows, cols and data (a sequence of rows) *)

\* the constructor without its row-length check: the variant C13 is checked against
MatrixOf_unchecked(d) ==
    Ok([rows |-> Len(d), cols |-> IF Len(d) > 0 THEN Len(d[1]) ELSE 0, data |-> d])

MatrixOf(d) ==
    LET rows == Len(d)
        cols == IF rows > 0 THEN Len(d[1]) ELSE 0
    IN  IF \E i \in 1..rows : Len(d[i]) # cols
           THEN Throw("All rows must have the same number of columns",
                      [rows |-> rows, cols |-> cols, data |-> <<>>])
           ELSE Ok([rows |-> rows, cols |-> cols, data |-> d])

\* sum over k in 1..n of f[k], accumulated left to right from 0.0
RECURSIVE SumTo(_, _)
SumTo(f, n) == IF n = 0 THEN Zero ELSE FAdd(SumTo(f, n - 1), f[n])

mean_per_column(m) ==
    IF m.rows = 0 \/ m.cols = 0 THEN <<>>
    ELSE [j \in 1..m.cols |->
            FDiv(SumTo([i \in 1..m.rows |-> m.data[i][j]], m.rows), R(m.rows))]

covariance_matrix(m) ==
    IF m.rows < 2
       THEN Throw("At least 2 rows required", [rows |-> 0, cols |-> 0, data |-> <<>>])
       ELSE LET means == mean_per_column(m)
                cov(i, j) ==
                    FDiv(SumTo([k \in 1..m.rows |->
                                  FMul(FSub(m.data[k][i], means[i]),
                                       FSub(m.data[k][j], means[j]))], m.rows),
                         R(m.rows - 1))
            IN  Ok([rows |-> m.cols, cols |-> m.cols,
                    data |-> [i \in 1..m.cols |-> [j \in 1..m.cols |-> cov(i, j)]]])

\* Matrix::Matrix(size_t r, size_t c): r rows of c zeros
ZeroMatrix(r, c) == [rows |-> r, cols |-> c, data |-> [i \in 1..r |-> [j \in 1..c |-> Zero]]]

\* what a failed operation leaves: no Matrix
NoMatrix == [rows |-> 0, cols |-> 0, data |-> <<>>]

\* double& operator()(r, c) assigned v, for r and c inside the matrix
set_element(m, r, c, v) == [m EXCEPT !.data[r][c] = v]

transpose(m) ==
    [rows |-> m.cols, cols |-> m.rows,
     data |-> [j \in 1..m.cols |-> [i \in 1..m.rows |-> m.data[i][j]]]]

dot(m, other) ==
    IF m.cols # other.rows
       THEN Throw("Matrix dimension mismatch for multiplication", NoMatrix)
       ELSE Ok([rows |-> m.rows, cols |-> other.cols,
                data |-> [i \in 1..m.rows |-> [j \in 1..other.cols |->
                            SumTo([k \in 1..m.cols |-> FMul(m.data[i][k], other.data[k][j])],
                                  m.cols)]]])

\* Matrix::operator*(double scalar)
operator_times(m, scalar) ==
    [m EXCEPT !.data = [i \in 1..m.rows |-> [j \in 1..m.cols |-> FMul(m.data[i][j], scalar)]]]

\* Matrix::operator+(const Matrix& other)
operator_plus(m, other) ==
    IF m.rows # other.rows \/ m.cols # other.cols
       THEN Throw("Matrix dimensions must match for addition", NoMatrix)
       ELSE Ok([m EXCEPT !.data = [i \in 1..m.rows |-> [j \in 1..m.cols |->
                                     FAdd(m.data[i][j], other.data[i][j])]]])

\* Matrix::operator-(const Matrix& other)
operator_minus(m, other) ==
    IF m.rows # other.rows \/ m.cols # other.cols
       THEN Throw("Matrix dimensions must match for subtraction", NoMatrix)
       ELSE Ok([m EXCEPT !.data = [i \in 1..m.rows |-> [j \in 1..m.cols |->
                                     FSub(m.data[i][j], other.data[i][j])]]])

\* the loops of cholesky_decompose from entry (i, j) on, L holding the entries
\* computed so far
RECURSIVE cholesky_from(_, _, _, _)
cholesky_from(m, L, i, j) ==
    IF i > m.rows THEN Ok(L)
    ELSE LET sum == SumTo([k \in 1..(j - 1) |-> FMul(L.data[i][k], L.data[j][k])], j - 1)
         IN  IF i = j
                THEN LET val == FSub(m.data[i][i], sum)
                     IN  IF FLeq(val, Zero)
                            THEN Throw("Matrix is not positive-definite", NoMatrix)
                            ELSE cholesky_from(m, set_element(L, i, j, FSqrt(val)), i + 1, 1)
                ELSE cholesky_from(m, set_element(L, i, j,
                                                  FDiv(FSub(m.data[i][j], sum), L.data[j][j])),
                                   i, j + 1)

cholesky_decompose(m) ==
    IF m.rows # m.cols
       THEN Throw("Cholesky decomposition requires a square matrix", NoMatrix)
       ELSE cholesky_from(m, ZeroMatrix(m.rows, m.rows), 1, 1)

\* sum -= f[k] for k from lo to hi, starting from 0.0
RECURSIVE SubTo(_, _, _)
SubTo(f, lo, hi) == IF hi < lo THEN Zero ELSE FSub(SubTo(f, lo, hi - 1), f[hi])

\* the forward substitution of inverse from entry (j, i) on
RECURSIVE forward_substitution(_, _, _, _)
forward_substitution(L, invL, i, j) ==
    IF i > L.rows THEN invL
    ELSE IF j > L.rows THEN forward_substitution(L, invL, i + 1, i + 1)
    ELSE IF j = i
            THEN forward_substitution(L, set_element(invL, i, i, FDiv(One, L.data[i][i])),
                                      i, j + 1)
    ELSE LET sum == SubTo([k \in i..(j - 1) |-> FMul(L.data[j][k], invL.data[k][i])],
                          i, j - 1)
         IN  forward_substitution(L, set_element(invL, j, i, FDiv(sum, L.data[j][j])),
                                  i, j + 1)

inverse(m) ==
    LET L == cholesky_decompose(m)
    IN  IF Raised(L) THEN L
        ELSE LET invL == forward_substitution(L.val, ZeroMatrix(L.val.rows, L.val.rows), 1, 1)
             IN  dot(transpose(invL), invL)

----------------------------------------------------------------------------
(* Portfolio *)

\* Portfolio::Portfolio(const Matrix& R), for a matrix with >= 2 rows and >= 1 column
Portfolio(m) ==
    [num_assets |-> m.cols,
     means |-> mean_per_column(m),
     cov_matrix |-> covariance_matrix(m).val.data]

\* portfolio_return summing over the entries both vectors have instead of
\* raising on a size mismatch: the variant C12 is checked against
portfolio_return_truncating(p, weights) ==
    LET n == IF Len(weights) < p.num_assets THEN Len(weights) ELSE p.num_assets
    IN  Ok(SumTo([i \in 1..n |-> FMul(weights[i], p.means[i])], n))

portfolio_return(p, weights) ==
    IF Len(weights) # p.num_assets THEN Throw("Weight vector size mismatch", NaN)
    ELSE Ok(SumTo([i \in 1..p.num_assets |-> FMul(weights[i], p.means[i])], p.num_assets))

portfolio_variance(p, weights) ==
    IF Len(weights) # p.num_assets THEN Throw("Weight vector size mismatch", NaN)
    ELSE LET n == p.num_assets
             row(i) == SumTo([j \in 1..n |->
                         FMul(FMul(weights[i], weights[j]), p.cov_matrix[i][j])], n)
         IN  Ok(SumTo([i \in 1..n |-> row(i)], n))

portfolio_risk(p, weights) ==
    LET var == portfolio_variance(p, weights)
    IN  IF Raised(var) THEN var ELSE Ok(FSqrt(FMax(Zero, var.val)))

\* sharpe_of with the excess return compared to 0.0 instead of 1e-12: the
\* variant C10 is checked against
sharpe_of_positive_excess(port_risk, excess_ret) ==
    IF FLess(port_risk, TINY)
       THEN (IF FGreater(excess_ret, Zero) THEN PInf ELSE Zero)
       ELSE FDiv(excess_ret, port_risk)

\* sharpe_of returning -infinity in the riskless case without positive excess,
\* the alternative its comment names: the variant C11 is checked against
sharpe_of_negative_infinity(port_risk, excess_ret) ==
    IF FLess(port_risk, TINY)
       THEN (IF FGreater(excess_ret, TINY) THEN PInf ELSE NInf)
       ELSE FDiv(excess_ret, port_risk)

\* the special cases of sharpe_ratio on a risk and an excess return
sharpe_of(port_risk, excess_ret) ==
    IF FLess(port_risk, TINY)
       THEN (IF FGreater(excess_ret, TINY) THEN PInf ELSE Zero)
       ELSE FDiv(excess_ret, port_risk)

sharpe_ratio(p, weights, risk_free) ==
    LET port_ret == portfolio_return(p, weights)
        port_risk == portfolio_risk(p, weights)
    IN  IF Raised(port_ret) THEN port_ret
        ELSE IF Raised(port_risk) THEN port_risk
        ELSE Ok(sharpe_of(port_risk.val, FSub(port_ret.val, risk_free)))

----------------------------------------------------------------------------
(* Constraints *)

\* target_return > numeric_limits<double>::lowest() + EPSILON
target_is_set(target_return) == FGreater(target_return, FAdd(DBL_LOWEST, EPSILON))

validate_weights_sum_to_one(weights) ==
    LET sum == Accumulate(weights)
    IN  IF FGreater(FAbs(FSub(sum, One)), EPSILON) THEN Throw("Weights must sum to 1.0", FALSE)
        ELSE Ok(TRUE)

\* out_of_bounds without the EPSILON tolerance: the variant C9 is checked against
out_of_bounds_strict(w, lower, upper) == FLess(w, lower) \/ FGreater(w, upper)

\* the test validate_bounds applies to one weight
out_of_bounds(w, lower, upper) ==
    FLess(w, FSub(lower, EPSILON)) \/ FGreater(w, FAdd(upper, EPSILON))

validate_bounds(weights, lower, upper) ==
    IF \E i \in 1..Len(weights) : out_of_bounds(weights[i], lower, upper)
       THEN Throw("Weight violates bounds", FALSE)
       ELSE Ok(TRUE)

\* expected_return += weights[i] * mean_returns[i], i over the weights
expected_return_of(weights, mean_returns) ==
    SumTo([i \in 1..Len(weights) |-> FMul(weights[i], mean_returns[i])], Len(weights))

validate_target_return(weights, mean_returns, target_return) ==
    IF Len(weights) # Len(mean_returns)
       THEN Throw("Weight and return vectors must match in size", FALSE)
    ELSE IF FLess(FAdd(expected_return_of(weights, mean_returns), EPSILON), target_return)
            THEN Throw("Expected return is below target", FALSE)
    ELSE Ok(TRUE)

validate_weights(weights, mean_returns, lower, upper, target_return) ==
    LET s == validate_weights_sum_to_one(weights)
        b == validate_bounds(weights, lower, upper)
    IN  IF Raised(s) THEN s
        ELSE IF Raised(b) THEN b
        ELSE IF target_is_set(target_return)
                THEN validate_target_return(weights, mean_returns, target_return)
        ELSE Ok(TRUE)

\* try { validate_weights(...); return true; } catch (...) { return false; }
is_feasible(weights, mean_returns, lower, upper, target_return) ==
    IF Raised(validate_weights(weights, mean_returns, lower, upper, target_return))
       THEN Ok(FALSE)
       ELSE Ok(TRUE)

\* the bounds loop of constraint_penalty over the first n weights
RECURSIVE penalty_bounds(_, _, _, _)
penalty_bounds(weights, lower, upper, n) ==
    IF n = 0 THEN Zero
    ELSE LET w == weights[n]
             p0 == penalty_bounds(weights, lower, upper, n - 1)
             p1 == IF FLess(w, FSub(lower, EPSILON)) THEN FAdd(p0, FSub(lower, w)) ELSE p0
         IN  IF FGreater(w, FAdd(upper, EPSILON)) THEN FAdd(p1, FSub(w, upper)) ELSE p1

\* the target-return block of constraint_penalty
penalty_target(weights, mean_returns, target_return) ==
    IF ~target_is_set(target_return) THEN Zero
    ELSE IF Len(weights) # Len(mean_returns) THEN R(1000)
    ELSE LET expected_return == expected_return_of(weights, mean_returns)
         IN  IF FLess(FAdd(expected_return, EPSILON), target_return)
                THEN FSub(target_return, expected_return)
                ELSE Zero

constraint_penalty(weights, mean_returns, lower, upper, target_return) ==
    FAdd(FAdd(FAbs(FSub(Accumulate(weights), One)),
              penalty_bounds(weights, lower, upper, Len(weights))),
         penalty_target(weights, mean_returns, target_return))

----------------------------------------------------------------------------
(* GeneticOptimiser: o is the optimiser's configuration *)

\* the bounds loop of calculate_fitness over the first n weights
RECURSIVE fitness_bounds_penalty(_, _, _, _)
fitness_bounds_penalty(weights, lower_bound, upper_bound, n) ==
    IF n = 0 THEN Zero
    ELSE LET w == weights[n]
             p0 == fitness_bounds_penalty(weights, lower_bound, upper_bound, n - 1)
             p1 == IF FLess(w, lower_bound) THEN FAdd(p0, FSub(lower_bound, w)) ELSE p0
         IN  IF FGreater(w, upper_bound) THEN FAdd(p1, FSub(w, upper_bound)) ELSE p1

\* the target-return block of calculate_fitness
fitness_target_penalty(o, weights) ==
    IF ~target_is_set(o.target_return) THEN Zero
    ELSE IF Len(weights) # o.portfolio.num_assets THEN R(100)
    ELSE LET current_return == portfolio_return(o.portfolio, weights).val
         IN  IF FLess(FAdd(current_return, EPSILON), o.target_return)
                THEN FSub(o.target_return, current_return)
                ELSE Zero

\* total_penalty with the sum term left unmultiplied: the variant C6 is
\* checked against
total_penalty_unweighted_sum(o, weights) ==
    FAdd(FAdd(FAbs(FSub(Accumulate(weights), One)),
              FMul(fitness_bounds_penalty(weights, o.lower_bound, o.upper_bound,
                                          Len(weights)),
                   o.bounds_penalty_multiplier)),
         FMul(fitness_target_penalty(o, weights), o.target_return_penalty_multiplier))

\* total_penalty of calculate_fitness
total_penalty(o, weights) ==
    LET sum_penalty == FAbs(FSub(Accumulate(weights), One))
        bounds_penalty ==
            fitness_bounds_penalty(weights, o.lower_bound, o.upper_bound, Len(weights))
        target_ret_penalty == fitness_target_penalty(o, weights)
    IN  FAdd(FAdd(FMul(sum_penalty, o.sum_penalty_multiplier),
                  FMul(bounds_penalty, o.bounds_penalty_multiplier)),
             FMul(target_ret_penalty, o.target_return_penalty_multiplier))

\* fitness_value without the isnan test: the variant C5 is checked against
fitness_value_nan_unmapped(sharpe, penalty) ==
    IF sharpe = PInf THEN NInf ELSE FAdd(FNeg(sharpe), penalty)

\* the last three statements of calculate_fitness
fitness_value(sharpe, penalty) ==
    IF sharpe = PInf THEN NInf
    ELSE IF IsNaN(sharpe) THEN DBL_MAX
    ELSE FAdd(FNeg(sharpe), penalty)

calculate_fitness(o, weights) ==
    LET sharpe == sharpe_ratio(o.portfolio, weights, o.risk_free_rate_)
    IN  IF Raised(sharpe) THEN sharpe
        ELSE Ok(fitness_value(sharpe.val, total_penalty(o, weights)))

\* select_parent: idx are the k = 3 indices dis(generator) produced, in order
select_parent(pop, fit, idx) ==
    LET b1 == idx[1]
        b2 == IF FLess(fit[idx[2]], fit[b1]) THEN idx[2] ELSE b1
        b3 == IF FLess(fit[idx[3]], fit[b2]) THEN idx[3] ELSE b2
    IN  pop[b3]

\* the gene swaps of crossover, before its two calls of normalize:
\* coins[i] is the outcome of coin(generator) at gene i
crossover_swap(parent1, parent2, coins) ==
    [c1 |-> [i \in 1..Len(parent1) |-> IF coins[i] THEN parent2[i] ELSE parent1[i]],
     c2 |-> [i \in 1..Len(parent1) |-> IF coins[i] THEN parent1[i] ELSE parent2[i]]]

crossover(parent1, parent2, coins) ==
    LET sw == crossover_swap(parent1, parent2, coins)
        n1 == normalize(sw.c1)
        n2 == normalize(sw.c2)
    IN  IF Raised(n1) THEN Throw(n1.exc, sw)
        ELSE IF Raised(n2) THEN Throw(n2.exc, sw)
        ELSE Ok([c1 |-> n1.val, c2 |-> n2.val])

\* mutate normalizing a mutated vector without clipping it first: the variant
\* C23 is checked against
mutate_without_clip(o, individual, hits) ==
    LET noisy == [i \in 1..Len(individual) |->
                    IF hits[i][1] THEN FAdd(individual[i], hits[i][2]) ELSE individual[i]]
    IN  IF \E i \in 1..Len(individual) : hits[i][1] THEN normalize(noisy) ELSE Ok(noisy)

\* mutate clipping and normalizing whether or not a gene was selected: the
\* variant C20 is checked against
mutate_always_renormalizing(o, individual, hits) ==
    normalize(clip_weights([i \in 1..Len(individual) |->
                              IF hits[i][1] THEN FAdd(individual[i], hits[i][2])
                                            ELSE individual[i]],
                           o.lower_bound, o.upper_bound))

\* mutate: hits[i] = <<dis(generator) < mutation_rate, noise(generator)>> at gene i
mutate(o, individual, hits) ==
    LET noisy == [i \in 1..Len(individual) |->
                    IF hits[i][1] THEN FAdd(individual[i], hits[i][2]) ELSE individual[i]]
        mutated == \E i \in 1..Len(individual) : hits[i][1]
    IN  IF mutated
           THEN normalize(clip_weights(noisy, o.lower_bound, o.upper_bound))
           ELSE Ok(noisy)

\* std::min_element over the first n fitnesses: the first smallest under operator<
RECURSIVE min_element(_, _)
min_element(fit, n) ==
    IF n = 1 THEN 1
    ELSE LET m == min_element(fit, n - 1)
         IN  IF FLess(fit[n], fit[m]) THEN n ELSE m

\* operator< of std::vector<double>: lexicographic
RECURSIVE VecLess(_, _, _)
VecLess(a, b, i) ==
    IF i > Len(b) THEN FALSE
    ELSE IF i > Len(a) THEN TRUE
    ELSE IF FLess(a[i], b[i]) THEN TRUE
    ELSE IF FLess(b[i], a[i]) THEN FALSE
    ELSE VecLess(a, b, i + 1)

\* operator< of std::pair<double, std::vector<double>>
PairLess(a, b) ==
    FLess(a[1], b[1]) \/ (~FLess(b[1], a[1]) /\ VecLess(a[2], b[2], 1))

\* std::sort(sorted.begin(), sorted.end()) over the first n pairs: operator< is
\* a total order on the pairs met here, so the pair that ends at position k is
\* the one with k - 1 pairs before it (equal pairs in their order of arrival)
SortPairs(pairs, n) ==
    LET before == [i \in 1..n |->
                     Cardinality({j \in 1..n : \/ PairLess(pairs[j], pairs[i])
                                               \/ (pairs[j] = pairs[i] /\ j < i)})]
    IN  [k \in 1..n |-> pairs[CHOOSE i \in 1..n : before[i] = k - 1]]

\* no elite whatever the population size: the variant C24 is checked against
elite_count_none(o) == 0

\* size_t elite_count = population_size / 20
elite_count(o) == o.population_size \div 20

\* elites taken from the front of the population as it stands, unsorted: the
\* variant C17 is checked against
elites_unsorted(o, pop, fit) == [i \in 1..elite_count(o) |-> pop[i]]

\* the elites copied into new_pop
elites(o, pop, fit) ==
    LET sorted == SortPairs([i \in 1..Len(pop) |-> <<fit[i], pop[i]>>], Len(pop))
    IN  [i \in 1..elite_count(o) |-> sorted[i][2]]

----------------------------------------------------------------------------
(* Inputs of the model *)

\* the values uniform_real_distribution(0.0, 1.0) produces
UniformDraws == {Q(k, UGrid) : k \in 0..(UGrid - 1)}

\* the values normal_distribution(0.0, 0.05) produces
NoiseSet == {Q(-1, 4), Q(1, 4)}

\* one gene's outcome in mutate: not selected, or selected with a noise
MutationHits == {<<FALSE, Zero>>} \cup {<<TRUE, z>> : z \in NoiseSet}

\* returns of three periods for two assets: the first risky, the second riskless
GAReturns == << <<R(3), R(1)>>, <<R(1), R(1)>>, <<R(2), R(1)>> >>

GAPortfolio == Portfolio(MatrixOf(GAReturns).val)

\* [lower, upper] pairs offered to the constructor
BoundsSet == { <<Zero, One>> }

\* the genes the population is followed on: whole numbers, halves and thirds
GeneDenominators == {1, 2, 3}

OnGrid(w) == \A i \in 1..Len(w) : w[i][2] \in GeneDenominators

----------------------------------------------------------------------------
(* optimise() *)

\* GeneticOptimiser::GeneticOptimiser with the header's default multipliers
Configs ==
    { [portfolio |-> GAPortfolio,
       population_size |-> ps,
       generations |-> g,
       lower_bound |-> b[1],
       upper_bound |-> b[2],
       target_return |-> DBL_LOWEST,
       sum_penalty_multiplier |-> R(100),
       bounds_penalty_multiplier |-> R(100),
       target_return_penalty_multiplier |-> R(1000),
       risk_free_rate_ |-> Zero] : ps \in 1..MaxPop, g \in 0..MaxGen, b \in BoundsSet }

NoCall == [fn |-> "none"]

Init ==
    /\ cfg \in Configs
    /\ pc = "init"
    /\ population = <<>>
    /\ fitnesses = [i \in 1..cfg.population_size |-> Zero]
    /\ best_weights = <<>>
    /\ best_fitness = DBL_MAX
    /\ gen = 0
    /\ new_pop = <<>>
    /\ result = Ok(<<>>)
    /\ call = NoCall
    /\ lowest_evaluated = PInf

\* an initial individual from clipping the raw draws and normalizing once: the
\* variant C19 is checked against
initial_individual_from_raw_draws(o, draws) ==
    normalize(clip_weights(draws, o.lower_bound, o.upper_bound))

\* the body of the initialisation loop, draws being what dis(gen) produced
initial_individual(o, draws) ==
    LET rw == random_weights(o.portfolio.num_assets, draws)
    IN  IF Raised(rw) THEN rw
        ELSE normalize(clip_weights(rw.val, o.lower_bound, o.upper_bound))

\* one pass of the initialisation loop: random_weights, clip_weights, normalize
InitIndividual ==
    /\ pc = "init"
    /\ Len(population) < cfg.population_size
    /\ \E draws \in [1..cfg.portfolio.num_assets -> UniformDraws] :
         LET rw == random_weights(cfg.portfolio.num_assets, draws)
             ind == normalize(clip_weights(rw.val, cfg.lower_bound, cfg.upper_bound))
         IN  IF Raised(rw) \/ Raised(ind)
                THEN /\ pc' = "error"
                     /\ result' = Throw(IF Raised(rw) THEN rw.exc ELSE ind.exc, <<>>)
                     /\ UNCHANGED population
                ELSE /\ OnGrid(ind.val)
                     /\ population' = Append(population, ind.val)
                     /\ pc' = IF Len(population) + 1 = cfg.population_size
                                 THEN "eval" ELSE "init"
                     /\ UNCHANGED result
    /\ UNCHANGED <<cfg, fitnesses, best_weights, best_fitness, gen, new_pop, call,
                   lowest_evaluated>>

\* the lowest of low and the first n fitnesses
RECURSIVE lowest_of(_, _, _)
lowest_of(fit, n, low) ==
    IF n = 0 THEN low
    ELSE LET rest == lowest_of(fit, n - 1, low)
         IN  IF FLess(fit[n], rest) THEN fit[n] ELSE rest

\* a tracker that updates the fitness and keeps the weights it had: the
\* variant C18 is checked against
track_best_fitness_only(best, f, w) ==
    IF FLess(f, best.fitness) /\ best.weights # <<>>
       THEN [fitness |-> f, weights |-> best.weights]
       ELSE IF FLess(f, best.fitness) THEN [fitness |-> f, weights |-> w] ELSE best

\* a tracker that takes every generation's best, better or not
track_best_overwrite(best, f, w) == [fitness |-> f, weights |-> w]

\* the new all-time best after a generation whose best is (f, w)
track_best(best, f, w) ==
    IF FLess(f, best.fitness) THEN [fitness |-> f, weights |-> w] ELSE best

\* a generation's evaluation: fitnesses, best tracking, sorting, elites
Evaluate ==
    /\ pc = "eval"
    /\ gen < cfg.generations
    /\ LET fit == [i \in 1..cfg.population_size |-> calculate_fitness(cfg, population[i]).val]
           best_idx == min_element(fit, cfg.population_size)
           nb == track_best([fitness |-> best_fitness, weights |-> best_weights],
                            fit[best_idx], population[best_idx])
       IN  /\ fitnesses' = fit
           /\ best_fitness' = nb.fitness
           /\ best_weights' = nb.weights
           /\ new_pop' = elites(cfg, population, fit)
           /\ lowest_evaluated' = lowest_of(fit, cfg.population_size, lowest_evaluated)
    /\ pc' = "repro"
    /\ UNCHANGED <<cfg, population, gen, result, call>>

\* both children pushed whatever room is left: the variant C16 is checked against
push_children_both(o, np, c1, c2) == np \o <<c1, c2>>

\* what new_pop becomes when the children c1 and c2 are pushed
push_children(o, np, c1, c2) ==
    IF Len(np) + 1 < o.population_size THEN np \o <<c1, c2>> ELSE Append(np, c1)

\* the while loop of optimise() from its iteration it on, kids[it] being the
\* pair of children that iteration's crossover and mutations produce
RECURSIVE reproduction_loop(_, _, _, _)
reproduction_loop(o, np, kids, it) ==
    IF Len(np) < o.population_size
       THEN reproduction_loop(o, push_children(o, np, kids[it][1], kids[it][2]), kids, it + 1)
       ELSE np

\* the population a generation hands to the next: elites, then children
next_generation(o, pop, fit, kids) == reproduction_loop(o, elites(o, pop, fit), kids, 1)

\* the outcomes of crossover over every choice of parents and coins
Crossovers(o, pop, fit) ==
    LET parents == {select_parent(pop, fit, idx) : idx \in [1..3 -> 1..o.population_size]}
    IN  {crossover(p1, p2, coins) :
            p1 \in parents, p2 \in parents, coins \in [1..o.portfolio.num_assets -> BOOLEAN]}

\* the outcomes of mutate on one child over every choice of hits
Mutations(o, child) ==
    {mutate(o, child, hits) : hits \in [1..Len(child) -> MutationHits]}

\* one pass of the reproduction loop
Reproduce ==
    /\ pc = "repro"
    /\ Len(new_pop) < cfg.population_size
    /\ \E x \in Crossovers(cfg, population, fitnesses) :
         IF Raised(x)
            THEN /\ pc' = "error"
                 /\ result' = Throw(x.exc, <<>>)
                 /\ UNCHANGED new_pop
            ELSE \E c1 \in Mutations(cfg, x.val.c1), c2 \in Mutations(cfg, x.val.c2) :
                   IF Raised(c1) \/ Raised(c2)
                      THEN /\ pc' = "error"
                           /\ result' = Throw(IF Raised(c1) THEN c1.exc ELSE c2.exc, <<>>)
                           /\ UNCHANGED new_pop
                      ELSE /\ OnGrid(c1.val)
                           /\ OnGrid(c2.val)
                           /\ new_pop' = push_children(cfg, new_pop, c1.val, c2.val)
                           /\ UNCHANGED <<pc, result>>
    /\ UNCHANGED <<cfg, population, fitnesses, best_weights, best_fitness, gen, call,
                   lowest_evaluated>>

\* the end of a pass: population = std::move(new_pop); ++gen
Replace ==
    /\ pc = "repro"
    /\ Len(new_pop) >= cfg.population_size
    /\ population' = new_pop
    /\ new_pop' = <<>>
    /\ gen' = gen + 1
    /\ pc' = "eval"
    /\ UNCHANGED <<cfg, fitnesses, best_weights, best_fitness, result, call, lowest_evaluated>>

\* after the loop: the final calculate_fitness(best_weights) and the return
Finish ==
    /\ pc = "eval"
    /\ gen >= cfg.generations
    /\ LET final_fitness == calculate_fitness(cfg, best_weights)
       IN  IF Raised(final_fitness)
              THEN /\ pc' = "error"
                   /\ result' = Throw(final_fitness.exc, <<>>)
                   /\ UNCHANGED best_fitness
              ELSE /\ pc' = "done"
                   /\ best_fitness' = IF FLess(final_fitness.val, best_fitness)
                                         THEN final_fitness.val ELSE best_fitness
                   /\ result' = Ok(best_weights)
    /\ UNCHANGED <<cfg, population, fitnesses, best_weights, gen, new_pop, call,
                   lowest_evaluated>>

Next == InitIndividual \/ Evaluate \/ Reproduce \/ Replace \/ Finish

Spec == Init /\ [][Next]_vars

----------------------------------------------------------------------------
(* Calls of the library functions on their own, on inputs drawn from small *)
(* sets that straddle every tolerance of the code                          *)

\* one asset whose risk, 1/128 per unit weight, lies below 1e-12 on the grid
TinyRiskReturns == << <<Q(129, 128)>>, <<Q(127, 128)>>, <<R(1)>> >>

\* the returns of four periods for three assets
ScenarioReturns ==
    << <<Q(1, 100), Q(2, 100), Q(-1, 100)>>, <<Q(2, 100), Q(1, 100), Zero>>,
       <<Q(-1, 100), Q(3, 100), Q(2, 100)>>, <<Zero, Q(1, 100), Q(1, 100)>> >>

TinyRiskPortfolio == Portfolio(MatrixOf(TinyRiskReturns).val)
ScenarioMeans == mean_per_column(MatrixOf(ScenarioReturns).val)

\* genes around the bounds 0 and 1, within and beyond EPSILON = 1/16 of them
GeneValues ==
    {Q(-1, 8), Q(-1, 16), Q(-1, 32), Zero, Q(1, 2), One, Q(33, 32), Q(17, 16), Q(9, 8)}

CallWeights ==
    {<<a>> : a \in {Zero, One, R(2), R(4)}}
    \cup {<<a, b>> : a \in GeneValues, b \in GeneValues}
    \cup {<<Q(3, 5), Q(1, 2)>>, <<Q(6, 5), Q(-1, 10)>>, <<Q(1, 2), Q(3, 10), Q(1, 5)>>}

\* target returns: none, and values around the returns the weights reach
CallTargets == {DBL_LOWEST, Zero, Q(3, 2), Q(25, 16), Q(13, 8), R(3)}

RiskFreeRates == {Zero, Q(31, 32), Q(63, 64), Q(127, 128), One, R(2)}

\* the values sharpe_ratio hands to calculate_fitness, and NaN
SharpeValues == {NaN, PInf, Zero, One, R(-1), Q(5, 2), R(-3)}
PenaltyValues == {Zero, Q(1, 10), R(100), R(1000)}

\* optimisers over the two-asset portfolio, for calls of calculate_fitness
FitnessConfigs ==
    { [portfolio |-> GAPortfolio,
       population_size |-> 1,
       generations |-> 1,
       lower_bound |-> Zero,
       upper_bound |-> One,
       target_return |-> t,
       sum_penalty_multiplier |-> ms,
       bounds_penalty_multiplier |-> R(100),
       target_return_penalty_multiplier |-> R(1000),
       risk_free_rate_ |-> Zero] : t \in {DBL_LOWEST, Q(3, 2), R(3)}, ms \in {R(100), R(1000)} }

InitCalls ==
    /\ cfg \in {o \in FitnessConfigs :
                   o.target_return = DBL_LOWEST /\ o.sum_penalty_multiplier = R(100)}
    /\ pc = "idle"
    /\ population = <<>>
    /\ fitnesses = <<>>
    /\ best_weights = <<>>
    /\ best_fitness = DBL_MAX
    /\ gen = 0
    /\ new_pop = <<>>
    /\ result = Ok(<<>>)
    /\ call = NoCall
    /\ lowest_evaluated = PInf

\* a call is made once, from the idle state, and leaves the optimiser alone
Called ==
    /\ pc = "idle"
    /\ pc' = "called"
    /\ UNCHANGED <<cfg, population, fitnesses, best_weights, best_fitness, gen,
                   new_pop, result, lowest_evaluated>>

\* the last statements of calculate_fitness on a Sharpe ratio and a penalty
CallFitnessValue ==
    /\ pc = "idle"
    /\ \E sharpe \in SharpeValues, penalty \in PenaltyValues :
         call' = [fn |-> "fitness_value", sharpe |-> sharpe, penalty |-> penalty,
                  ret |-> Ok(fitness_value(sharpe, penalty))]
    /\ Called

\* calculate_fitness, with the Sharpe ratio and the total_penalty it computed
CallFitness ==
    /\ pc = "idle"
    /\ \E o \in FitnessConfigs, weights \in CallWeights :
         LET sharpe == sharpe_ratio(o.portfolio, weights, o.risk_free_rate_)
         IN  call' = [fn |-> "calculate_fitness", o |-> o, weights |-> weights,
                      sharpe |-> sharpe,
                      sum_penalty |-> FAbs(FSub(Accumulate(weights), One)),
                      bounds_term |->
                          IF Raised(sharpe) THEN NaN
                          ELSE fitness_bounds_penalty(weights, o.lower_bound,
                                                      o.upper_bound, Len(weights)),
                      target_term |->
                          IF Raised(sharpe) THEN NaN ELSE fitness_target_penalty(o, weights),
                      penalty |-> IF Raised(sharpe) THEN NaN ELSE total_penalty(o, weights),
                      ret |-> calculate_fitness(o, weights)]
    /\ Called

\* constraint_penalty, with the amounts its bounds and target blocks added
CallPenalty ==
    /\ pc = "idle"
    /\ \E weights \in CallWeights, means \in {GAPortfolio.means, ScenarioMeans},
          target \in CallTargets :
         call' = [fn |-> "constraint_penalty", weights |-> weights, mean_returns |-> means,
                  lower |-> Zero, upper |-> One, target_return |-> target,
                  bounds_term |-> penalty_bounds(weights, Zero, One, Len(weights)),
                  target_term |-> penalty_target(weights, means, target),
                  ret |-> Ok(constraint_penalty(weights, means, Zero, One, target))]
    /\ Called

CallFeasible ==
    /\ pc = "idle"
    /\ \E weights \in CallWeights, means \in {GAPortfolio.means, ScenarioMeans},
          target \in CallTargets :
         call' = [fn |-> "is_feasible", weights |-> weights, mean_returns |-> means,
                  lower |-> Zero, upper |-> One, target_return |-> target,
                  ret |-> is_feasible(weights, means, Zero, One, target)]
    /\ Called

CallSharpe ==
    /\ pc = "idle"
    /\ \E p \in {GAPortfolio, TinyRiskPortfolio}, weights \in CallWeights,
          risk_free \in RiskFreeRates :
         call' = [fn |-> "sharpe_ratio", p |-> p, weights |-> weights,
                  risk_free |-> risk_free,
                  port_ret |-> portfolio_return(p, weights),
                  port_risk |-> portfolio_risk(p, weights),
                  ret |-> sharpe_ratio(p, weights, risk_free)]
    /\ Called

\* the three-asset portfolio of the four scenario periods
ScenarioPortfolio == Portfolio(MatrixOf(ScenarioReturns).val)

PortfolioWeights == CallWeights \cup {<<One, Zero, Zero>>, <<Zero, One, Zero>>}

CallPortfolioReturn ==
    /\ pc = "idle"
    /\ \E p \in {GAPortfolio, ScenarioPortfolio}, weights \in PortfolioWeights :
         call' = [fn |-> "portfolio_return", p |-> p, weights |-> weights,
                  ret |-> portfolio_return(p, weights)]
    /\ Called

CallPortfolioVariance ==
    /\ pc = "idle"
    /\ \E p \in {GAPortfolio, TinyRiskPortfolio}, weights \in PortfolioWeights :
         call' = [fn |-> "portfolio_variance", p |-> p, weights |-> weights,
                  ret |-> portfolio_variance(p, weights)]
    /\ Called

CallPortfolioRisk ==
    /\ pc = "idle"
    /\ \E p \in {GAPortfolio, TinyRiskPortfolio}, weights \in PortfolioWeights :
         call' = [fn |-> "portfolio_risk", p |-> p, weights |-> weights,
                  ret |-> portfolio_risk(p, weights)]
    /\ Called

\* tables of up to two rows of up to two entries, ragged ones included
TableRows == {<<>>} \cup {<<a>> : a \in {One, R(2)}} \cup {<<a, b>> : a \in {One, R(2)}, b \in {One, R(2)}}
Tables == {<<>>} \cup {<<r1>> : r1 \in TableRows} \cup {<<r1, r2>> : r1 \in TableRows, r2 \in TableRows}

\* the matrices the constructors build from them
Matrices == {MatrixOf(t).val : t \in {u \in Tables : ~Raised(MatrixOf(u))}}

\* Matrix::Matrix(table)
CallMatrixOf ==
    /\ pc = "idle"
    /\ \E d \in Tables :
         call' = [fn |-> "Matrix", table |-> d, ret |-> MatrixOf(d)]
    /\ Called

\* a const binary operation: dot, operator+ or operator-; self and other are
\* the operands as the call left them
CallMatrixBinary ==
    /\ pc = "idle"
    /\ \E m \in Matrices, other \in Matrices, op \in {"dot", "operator+", "operator-"} :
         call' = [fn |-> op, before |-> m, self |-> m, other |-> other,
                  ret |-> CASE op = "dot" -> dot(m, other)
                            [] op = "operator+" -> operator_plus(m, other)
                            [] OTHER -> operator_minus(m, other)]
    /\ Called

\* a unary operation that cannot fail: transpose, operator*, and an element
\* assigned through operator(), which alone changes the matrix it is called on
CallMatrixUnary ==
    /\ pc = "idle"
    /\ \E m \in Matrices, op \in {"transpose", "operator*", "operator()"} :
         \E r \in 1..(IF op = "operator()" THEN m.rows ELSE 1),
            c \in 1..(IF op = "operator()" THEN m.cols ELSE 1) :
           call' = [fn |-> op, before |-> m,
                    self |-> IF op = "operator()" THEN set_element(m, r, c, R(2)) ELSE m,
                    ret |-> CASE op = "transpose" -> Ok(transpose(m))
                              [] op = "operator*" -> Ok(operator_times(m, R(2)))
                              [] OTHER -> Ok(set_element(m, r, c, R(2)))]
    /\ Called

\* matrices for the factorization, with rational square roots: positive
\* definite ones, ones with a diagonal term <= 0, non-square ones, and one that
\* is not symmetric
CholeskyTables ==
    { <<>>, << <<One>> >>, << <<R(4)>> >>, << <<Zero>> >>, << <<R(-1)>> >>,
      << <<One, Zero>>, <<Zero, One>> >>, << <<One, One>>, <<One, R(2)>> >>,
      << <<R(4), R(2)>>, <<R(2), R(2)>> >>, << <<R(4), R(2)>>, <<R(2), R(5)>> >>,
      << <<One, One>>, <<One, One>> >>, << <<One, R(2)>>, <<R(2), One>> >>,
      << <<R(4), R(2)>>, <<R(2), One>> >>, << <<Zero, Zero>>, <<Zero, One>> >>,
      << <<One, R(2)>> >>, << <<One>>, <<R(2)>> >>,
      << <<One, R(5)>>, <<One, R(2)>> >> }

CallCholesky ==
    /\ pc = "idle"
    /\ \E d \in CholeskyTables :
         LET m == MatrixOf(d).val
         IN  call' = [fn |-> "cholesky_decompose", before |-> m, self |-> m,
                      ret |-> cholesky_decompose(m)]
    /\ Called

\* inverse, with the factorization it started from
CallInverse ==
    /\ pc = "idle"
    /\ \E d \in CholeskyTables :
         LET m == MatrixOf(d).val
         IN  call' = [fn |-> "inverse", before |-> m, self |-> m,
                      L |-> cholesky_decompose(m), ret |-> inverse(m)]
    /\ Called

\* vectors for normalize: the call weights, and sums below, at and just above 1e-12
NormalizeWeights ==
    CallWeights \cup {<<Zero, Zero>>, <<Q(1, 128), Zero>>, <<Q(1, 64), Zero>>,
                      <<Q(1, 32), Zero>>, <<Q(1, 128), Q(1, 128), Q(1, 128)>>}

\* normalize(weights), and normalize applied once more to what it left
CallNormalize ==
    /\ pc = "idle"
    /\ \E weights \in NormalizeWeights :
         LET once == normalize(weights)
         IN  call' = [fn |-> "normalize", weights |-> weights, ret |-> once,
                      again |-> IF Raised(once) THEN once ELSE normalize(once.val)]
    /\ Called

\* population sizes around the multiples of 20, odd and even
GenerationSizes == {1, 2, 3, 19, 20, 21, 40, 41}

GenerationConfig(ps) ==
    [portfolio |-> GAPortfolio, population_size |-> ps, generations |-> 1,
     lower_bound |-> Zero, upper_bound |-> One, target_return |-> DBL_LOWEST,
     sum_penalty_multiplier |-> R(100), bounds_penalty_multiplier |-> R(100),
     target_return_penalty_multiplier |-> R(1000), risk_free_rate_ |-> Zero]

\* populations of ps distinct vectors summing to 1, the best first or last,
\* and one with its best in the middle and a repeated vector
GenerationPopulations(ps) ==
    { [i \in 1..ps |-> <<Q(i, ps), Q(ps - i, ps)>>],
      [i \in 1..ps |-> <<Q(ps + 1 - i, ps), Q(i - 1, ps)>>],
      [i \in 1..ps |-> IF i % 2 = 0 THEN <<Q(i, 2 * ps), Q(2 * ps - i, 2 * ps)>>
                                    ELSE <<One, Zero>>] }

\* the children of the loop's iterations: one pair throughout, or two in turn
ChildPairs == { <<<<Q(1, 4), Q(3, 4)>>, <<Q(3, 4), Q(1, 4)>>>>,
                <<<<Q(1, 3), Q(2, 3)>>, <<One, Zero>>>> }
GenerationKids(ps) ==
    {[it \in 1..ps |-> pair] : pair \in ChildPairs}
    \cup {[it \in 1..ps |-> IF it % 2 = 1 THEN <<<<Q(1, 4), Q(3, 4)>>, <<Q(3, 4), Q(1, 4)>>>>
                                          ELSE <<<<Q(1, 3), Q(2, 3)>>, <<One, Zero>>>>]}

\* one generation of optimise() after its evaluation: sort, elites, children
CallNextGeneration ==
    /\ pc = "idle"
    /\ \E ps \in GenerationSizes :
         \E pop \in GenerationPopulations(ps), kids \in GenerationKids(ps) :
           LET o == GenerationConfig(ps)
               fit == [i \in 1..ps |-> calculate_fitness(o, pop[i]).val]
           IN  call' = [fn |-> "next_generation", o |-> o, population |-> pop,
                        fitnesses |-> fit, kids |-> kids,
                        ret |-> Ok(next_generation(o, pop, fit, kids))]
    /\ Called

\* uniform draws and bounds for one initial individual
InitDraws == {Zero, Q(3, 10), Q(9, 10)}
InitBounds == { <<Zero, One>>, <<Zero, Q(1, 2)>>, <<Q(1, 4), One>> }

CallInitialIndividual ==
    /\ pc = "idle"
    /\ \E b \in InitBounds, draws \in [1..2 -> InitDraws] :
         LET o == [GenerationConfig(1) EXCEPT !.lower_bound = b[1], !.upper_bound = b[2]]
         IN  call' = [fn |-> "initial_individual", o |-> o, draws |-> draws,
                      ret |-> initial_individual(o, draws)]
    /\ Called

\* vectors handed to mutate: children as crossover returns them, and vectors
\* off the simplex, on which a clip or a rescaling would show
MutateChildren ==
    { <<One, Zero>>, <<Zero, One>>, <<Q(1, 2), Q(1, 2)>>, <<One, One>>, <<Zero, Zero>>,
      <<Q(3, 4), Q(3, 4)>>, <<Zero, Q(1, 4)>>,
      <<One>>, <<Q(1, 2), Q(1, 4), Q(1, 4)>> }

CallMutate ==
    /\ pc = "idle"
    /\ \E b \in InitBounds, individual \in MutateChildren :
       \E hits \in [1..Len(individual) -> MutationHits] :
         LET o == [GenerationConfig(1) EXCEPT !.lower_bound = b[1], !.upper_bound = b[2]]
         IN  call' = [fn |-> "mutate", o |-> o, individual |-> individual, hits |-> hits,
                      ret |-> mutate(o, individual, hits)]
    /\ Called

\* parents as select_parent hands them to crossover: members of a population,
\* each summing to 1
CrossoverParents ==
    { <<One, Zero>>, <<Zero, One>>, <<Q(1, 2), Q(1, 2)>>, <<Q(1, 4), Q(3, 4)>> }

CallCrossover ==
    /\ pc = "idle"
    /\ \E parent1 \in CrossoverParents, parent2 \in CrossoverParents,
          coins \in [1..2 -> BOOLEAN] :
         call' = [fn |-> "crossover", parent1 |-> parent1, parent2 |-> parent2,
                  coins |-> coins, ret |-> crossover(parent1, parent2, coins)]
    /\ Called

NextCalls ==
    \/ CallCrossover
    \/ CallMutate
    \/ CallInitialIndividual
    \/ CallNextGeneration
    \/ CallNormalize
    \/ CallCholesky \/ CallInverse
    \/ CallMatrixOf \/ CallMatrixBinary \/ CallMatrixUnary
    \/ CallFitnessValue \/ CallFitness \/ CallPenalty \/ CallFeasible \/ CallSharpe
    \/ CallPortfolioReturn \/ CallPortfolioVariance \/ CallPortfolioRisk

SpecCalls == InitCalls /\ [][NextCalls]_vars

----------------------------------------------------------------------------
(* Claims about optimise(), checked under Spec *)

Ended == pc \in {"done", "error"}
NormalConfig == cfg.lower_bound = Zero /\ cfg.upper_bound = One

\* C1: for every population_size >= 1 and every generation count, 0 included,
\* optimise() ends by returning a vector of exactly num_assets entries, never
\* an empty vector and never an exception.
C1_ReturnsNWeights ==
    Ended => /\ pc = "done"
             /\ Len(result.val) = cfg.portfolio.num_assets

\* C2: the tracked all-time-best fitness never increases: no step of
\* optimise() leaves best_fitness greater than it was.
C2_BestNeverIncreases == [][FLeq(best_fitness', best_fitness)]_vars

\* C2 witness: a later generation has been evaluated whose own best is worse
\* than the tracked best, which was kept.
C2_Witness ==
    /\ pc = "repro"
    /\ gen >= 1
    /\ FLess(best_fitness, fitnesses[min_element(fitnesses, cfg.population_size)])

\* C3: under the normal configuration no renormalization of optimise() is
\* handed a vector whose sum is below 1e-12: normalize never raises.
C3_NormalizeNeverRaises ==
    NormalConfig => ~(pc = "error" /\ result.exc = "Cannot normalize")

\* C4: optimise() ends only after exactly `generations` evaluate-then-reproduce
\* passes: whenever it has ended, gen = generations.
C4_RunsEveryGeneration == Ended => gen = cfg.generations

----------------------------------------------------------------------------
(* Claims about the library functions, checked under SpecCalls *)

\* the fitnesses calculate_fitness can give a vector whose Sharpe ratio is a
\* finite number
FiniteSharpeFitnesses ==
    {fitness_value(s2, p2) : s2 \in {x \in SharpeValues : IsFinite(x)}, p2 \in PenaltyValues}

AllFitnesses == {fitness_value(s2, p2) : s2 \in SharpeValues, p2 \in PenaltyValues}

\* the fitness the rule of C5 gives a Sharpe ratio and a penalty
MappedFitness(sharpe, penalty) ==
    CASE sharpe = PInf -> NInf
      [] sharpe = NaN -> DBL_MAX
      [] OTHER -> FSub(penalty, sharpe)

\* C5: the fitness is -infinity when the Sharpe ratio is +infinity, whatever
\* the penalty; the largest finite double when the Sharpe ratio is NaN; and
\* -Sharpe + total_penalty otherwise.  So an infinite-Sharpe vector ranks
\* strictly better (lower) than every finite-Sharpe vector, and a NaN-Sharpe
\* vector never ranks better than any other.
C5_FitnessOfSharpe ==
    /\ call.fn = "fitness_value" =>
         /\ call.ret.val = MappedFitness(call.sharpe, call.penalty)
         /\ call.sharpe = PInf => \A f \in FiniteSharpeFitnesses : FLess(call.ret.val, f)
         /\ call.sharpe = NaN => \A f \in AllFitnesses : ~FLess(call.ret.val, f)
    /\ (call.fn = "calculate_fitness" /\ ~Raised(call.ret)) =>
         /\ call.ret.val = MappedFitness(call.sharpe.val, call.penalty)
         /\ call.sharpe.val = PInf => \A f \in FiniteSharpeFitnesses : FLess(call.ret.val, f)

\* C5 witness: calculate_fitness returned -infinity for a vector of infinite
\* Sharpe ratio and a positive total penalty.
C5_Witness ==
    /\ call.fn = "calculate_fitness"
    /\ ~Raised(call.ret)
    /\ call.sharpe.val = PInf
    /\ FGreater(call.penalty, Zero)
    /\ call.ret.val = NInf

\* C5 witness of the NaN case: a NaN Sharpe ratio was mapped to max().
C5_WitnessNaN ==
    /\ call.fn = "fitness_value"
    /\ call.sharpe = NaN
    /\ call.ret.val = DBL_MAX

\* C6: total_penalty = sum_penalty * mult_sum + bounds_penalty * mult_bounds +
\* target_penalty * mult_target with sum_penalty = |sum(w) - 1|; a vector
\* summing to 1.1 under sum_penalty_multiplier = 1000 gets exactly 100.0 from
\* the sum term, whatever its bounds term, target term and Sharpe ratio.
C6_TotalPenalty ==
    (call.fn = "calculate_fitness" /\ ~Raised(call.ret)) =>
        LET sum_term == FMul(FAbs(FSub(SumTo(call.weights, Len(call.weights)), One)),
                             call.o.sum_penalty_multiplier)
            rest == FAdd(FMul(call.bounds_term, call.o.bounds_penalty_multiplier),
                         FMul(call.target_term, call.o.target_return_penalty_multiplier))
        IN  /\ call.penalty = FAdd(sum_term, rest)
            /\ (SumTo(call.weights, Len(call.weights)) = Q(11, 10)
                  /\ call.o.sum_penalty_multiplier = R(1000)) =>
                 /\ sum_term = R(100)
                 /\ FSub(call.penalty, rest) = R(100)

\* C6 witness: a vector summing to 1.1 under multiplier 1000, with a positive
\* bounds term and a positive target term as well.
C6_Witness ==
    /\ call.fn = "calculate_fitness"
    /\ ~Raised(call.ret)
    /\ Accumulate(call.weights) = Q(11, 10)
    /\ call.o.sum_penalty_multiplier = R(1000)
    /\ FGreater(call.bounds_term, Zero)
    /\ FGreater(call.target_term, Zero)
    /\ FGreater(call.penalty, R(100))

\* the target is set and the weight vector's length differs from the mean vector's
MismatchCall ==
    /\ call.fn \in {"constraint_penalty", "calculate_fitness"}
    /\ IF call.fn = "constraint_penalty"
          THEN /\ target_is_set(call.target_return)
               /\ Len(call.weights) # Len(call.mean_returns)
          ELSE /\ target_is_set(call.o.target_return)
               /\ Len(call.weights) # Len(call.o.portfolio.means)

\* C7: when the target is set and the weight vector's length differs from the
\* mean vector's, the target penalty term is the value 100.0 and no error is
\* raised, in constraint_penalty and in calculate_fitness alike.
C7_MismatchPenaltyIs100 ==
    MismatchCall => /\ ~Raised(call.ret)
                    /\ call.target_term = R(100)

\* sum over the first n genes of max(0, lower - w) + max(0, w - upper)
RECURSIVE SumOfExcess(_, _, _, _)
SumOfExcess(weights, lower, upper, n) ==
    IF n = 0 THEN Zero
    ELSE FAdd(SumOfExcess(weights, lower, upper, n - 1),
              FAdd(FMax(Zero, FSub(lower, weights[n])), FMax(Zero, FSub(weights[n], upper))))

\* C8: the bounds penalty is the sum over genes of max(0, lower - w) plus
\* max(0, w - upper), so that any gene strictly outside [lower, upper] adds a
\* positive amount, in constraint_penalty and in calculate_fitness alike.
C8_BoundsPenaltyExact ==
    /\ call.fn = "constraint_penalty" =>
         call.bounds_term = SumOfExcess(call.weights, call.lower, call.upper,
                                        Len(call.weights))
    /\ (call.fn = "calculate_fitness" /\ ~Raised(call.ret)) =>
         call.bounds_term = SumOfExcess(call.weights, call.o.lower_bound,
                                        call.o.upper_bound, Len(call.weights))

\* the conditions C9 lists, the expected return being defined for weight and
\* mean vectors of one length
FeasibleByRule(weights, mean_returns, lower, upper, target_return) ==
    /\ FLeq(FAbs(FSub(SumTo(weights, Len(weights)), One)), EPSILON)
    /\ \A i \in 1..Len(weights) :
         /\ FLeq(FSub(lower, EPSILON), weights[i])
         /\ FLeq(weights[i], FAdd(upper, EPSILON))
    /\ \/ ~target_is_set(target_return)
       \/ /\ Len(weights) = Len(mean_returns)
          /\ FLeq(FSub(target_return, EPSILON),
                  SumTo([i \in 1..Len(weights) |-> FMul(weights[i], mean_returns[i])],
                        Len(weights)))

\* C9: is_feasible never raises, and returns true exactly when validate_weights
\* raises nothing on the same arguments: when |sum(w) - 1| <= 1e-8, every gene
\* lies in [lower - 1e-8, upper + 1e-8], and the target is the sentinel or the
\* expected return is >= target - 1e-8; it returns false otherwise.
C9_FeasibleIffValid ==
    call.fn = "is_feasible" =>
        /\ ~Raised(call.ret)
        /\ call.ret.val \in BOOLEAN
        /\ call.ret.val = ~Raised(validate_weights(call.weights, call.mean_returns,
                                                   call.lower, call.upper,
                                                   call.target_return))
        /\ call.ret.val = FeasibleByRule(call.weights, call.mean_returns, call.lower,
                                         call.upper, call.target_return)

\* C9 witness: weights [0.5, 0.3, 0.2], lower 0, upper 1, target 0.0 over means
\* that give a non-negative expected return: is_feasible returned true.
C9_Witness ==
    /\ call.fn = "is_feasible"
    /\ call.weights = <<Q(1, 2), Q(3, 10), Q(1, 5)>>
    /\ call.mean_returns = ScenarioMeans
    /\ call.target_return = Zero
    /\ call.ret = Ok(TRUE)

\* C10: on a size-matched weight vector sharpe_ratio returns +infinity if and
\* only if the portfolio risk is < 1e-12 and the excess return is > 1e-12.
C10_InfiniteSharpeIff ==
    (call.fn = "sharpe_ratio" /\ Len(call.weights) = call.p.num_assets) =>
        /\ ~Raised(call.ret)
        /\ (call.ret.val = PInf) <=>
             /\ FLess(call.port_risk.val, TINY)
             /\ FGreater(FSub(call.port_ret.val, call.risk_free), TINY)

\* C10 witness: sharpe_ratio returned +infinity on a size-matched vector.
C10_Witness ==
    /\ call.fn = "sharpe_ratio"
    /\ Len(call.weights) = call.p.num_assets
    /\ call.ret.val = PInf

\* a size-matched call of sharpe_ratio, its risk and its excess return
SharpeCall == call.fn = "sharpe_ratio" /\ Len(call.weights) = call.p.num_assets
CallRisk == call.port_risk.val
CallExcess == FSub(call.port_ret.val, call.risk_free)

\* C11 as stated: on a size-matched weight vector sharpe_ratio returns exactly
\* 0.0 if and only if the portfolio risk is < 1e-12 and the excess return is
\* <= 1e-12.
C11_ZeroSharpeIff ==
    SharpeCall =>
        ((call.ret.val = Zero) <=> (FLess(CallRisk, TINY) /\ FLeq(CallExcess, TINY)))

\* C11 amended: sharpe_ratio returns exactly 0.0 if and only if either the
\* risk is < 1e-12 and the excess return is <= 1e-12, or the risk is >= 1e-12
\* and the excess return is exactly 0.
C11_ZeroSharpeIffAmended ==
    SharpeCall =>
        ((call.ret.val = Zero) <=>
            \/ FLess(CallRisk, TINY) /\ FLeq(CallExcess, TINY)
            \/ ~FLess(CallRisk, TINY) /\ CallExcess = Zero)

\* C11 witness: a risky portfolio whose return equals the risk-free rate got
\* the Sharpe ratio 0.0.
C11_Witness ==
    /\ SharpeCall
    /\ ~FLess(CallRisk, TINY)
    /\ CallExcess = Zero
    /\ call.ret = Ok(Zero)

\* C11 witness of the riskless case: risk < 1e-12, excess <= 1e-12, result 0.0.
C11_WitnessRiskless ==
    /\ SharpeCall
    /\ FLess(CallRisk, TINY)
    /\ FLeq(CallExcess, TINY)
    /\ call.ret = Ok(Zero)

\* the sum over the assets 1..n of w_i * mean_i
RECURSIVE WeightedMean(_, _, _)
WeightedMean(w, means, n) ==
    IF n = 0 THEN Zero ELSE FAdd(WeightedMean(w, means, n - 1), FMul(w[n], means[n]))

\* C12: portfolio_return(w) is the sum over assets of w_i * mean_i whenever
\* w has one entry per asset (means [0.005, 0.0175, 0.005] and w = [1,0,0] give
\* 0.005); portfolio_return, portfolio_variance, portfolio_risk and
\* sharpe_ratio raise, returning nothing, whenever w's length differs from the
\* asset count.
C12_ReturnAndSizeCheck ==
    /\ (call.fn = "portfolio_return" /\ Len(call.weights) = call.p.num_assets) =>
         /\ call.ret = Ok(WeightedMean(call.weights, call.p.means, call.p.num_assets))
         /\ (call.p.means = <<Q(1, 200), Q(7, 400), Q(1, 200)>>
               /\ call.weights = <<One, Zero, Zero>>) => call.ret.val = Q(1, 200)
    /\ (call.fn \in {"portfolio_return", "portfolio_variance", "portfolio_risk",
                     "sharpe_ratio"}
          /\ Len(call.weights) # call.p.num_assets) =>
         /\ Raised(call.ret)
         /\ call.ret.exc = "Weight vector size mismatch"

\* C12 witness: means [0.005, 0.0175, 0.005] and w = [1,0,0] returned 0.005.
C12_Witness ==
    /\ call.fn = "portfolio_return"
    /\ call.p.means = <<Q(1, 200), Q(7, 400), Q(1, 200)>>
    /\ call.weights = <<One, Zero, Zero>>
    /\ call.ret = Ok(Q(1, 200))

\* C12 witness of the failure: portfolio_risk raised on a vector of the wrong size.
C12_WitnessMismatch ==
    /\ call.fn = "portfolio_risk"
    /\ Len(call.weights) # call.p.num_assets
    /\ Raised(call.ret)

\* a Matrix whose data is rows rows of exactly cols entries
WellFormed(m) ==
    /\ Len(m.data) = m.rows
    /\ \A i \in 1..m.rows : Len(m.data[i]) = m.cols

SameShape(a, b) == a.rows = b.rows /\ a.cols = b.cols

\* C13: Matrix operations on operands of incompatible shape fail with an error
\* and produce no result: construction from a table with a row whose length
\* differs from the first row's, dot when the left column count differs from
\* the right row count, operator+ and operator- when row or column counts
\* differ.  Every constructed Matrix has rows of exactly cols entries, and no
\* operation changes the dimensions of the matrix it is called on.
C13_ShapeErrors ==
    /\ call.fn = "Matrix" =>
         /\ Raised(call.ret) <=>
              \E i \in 1..Len(call.table) : Len(call.table[i]) # Len(call.table[1])
         /\ Raised(call.ret) => call.ret.val.data = <<>>
         /\ ~Raised(call.ret) =>
              /\ WellFormed(call.ret.val)
              /\ call.ret.val.rows = Len(call.table)
              /\ call.ret.val.data = call.table
    /\ call.fn = "dot" =>
         /\ Raised(call.ret) <=> call.before.cols # call.other.rows
         /\ ~Raised(call.ret) =>
              /\ call.ret.val.rows = call.before.rows
              /\ call.ret.val.cols = call.other.cols
    /\ call.fn \in {"operator+", "operator-"} =>
         /\ Raised(call.ret) <=> ~SameShape(call.before, call.other)
         /\ ~Raised(call.ret) => SameShape(call.ret.val, call.before)
    /\ call.fn \in {"dot", "operator+", "operator-", "transpose", "operator*", "operator()"} =>
         /\ Raised(call.ret) => call.ret.val = NoMatrix
         /\ ~Raised(call.ret) => WellFormed(call.ret.val)
         /\ WellFormed(call.self)
         /\ SameShape(call.self, call.before)

\* C13 witness: operator+ on a 1 x 2 and a 2 x 2 matrix raised.
C13_Witness ==
    /\ call.fn = "operator+"
    /\ call.before.rows = 1
    /\ call.other.rows = 2
    /\ call.before.cols = 2
    /\ call.other.cols = 2
    /\ call.ret.exc = "Matrix dimensions must match for addition"

\* C13 witness of construction: a table with rows of 2 and of 1 entries was refused.
C13_WitnessRagged ==
    /\ call.fn = "Matrix"
    /\ Len(call.table) = 2
    /\ Len(call.table[1]) = 2
    /\ Len(call.table[2]) = 1
    /\ call.ret.exc = "All rows must have the same number of columns"

Identity(n) ==
    [rows |-> n, cols |-> n,
     data |-> [i \in 1..n |-> [j \in 1..n |-> IF i = j THEN One ELSE Zero]]]

\* the diagonal terms of the factorization of a matrix of at most two rows:
\* A11, and A22 minus the square of L21 = A21 / sqrt(A11)
DiagonalTermFails(a) ==
    \/ FLeq(a.data[1][1], Zero)
    \/ a.rows = 2 /\ FLeq(FSub(a.data[2][2],
                               FDiv(FMul(a.data[2][1], a.data[2][1]), a.data[1][1])), Zero)

FactorizationFails(a) == a.rows # a.cols \/ (a.rows > 0 /\ DiagonalTermFails(a))

LowerTriangular(l) == \A i \in 1..l.rows : \A j \in (i + 1)..l.cols : l.data[i][j] = Zero

\* C14: inverse() fails exactly when the Cholesky factorization fails, which
\* fails exactly when the matrix is non-square or some diagonal term is <= 0;
\* whenever it does not fail, L is lower-triangular with A = L * L^T and
\* inverse() returns a matrix whose product with A is the identity.
C14_CholeskyAndInverse ==
    /\ call.fn = "cholesky_decompose" =>
         /\ Raised(call.ret) <=> FactorizationFails(call.before)
         /\ ~Raised(call.ret) =>
              /\ LowerTriangular(call.ret.val)
              /\ dot(call.ret.val, transpose(call.ret.val)) = Ok(call.before)
    /\ call.fn = "inverse" =>
         /\ Raised(call.ret) <=> Raised(call.L)
         /\ ~Raised(call.ret) => dot(call.ret.val, call.before) = Ok(Identity(call.before.rows))

Symmetric(a) == a.rows = a.cols /\ transpose(a) = a

\* what holds of C14: the same statement for the matrices that are symmetric
\* or make the factorization fail.
C14_OnSymmetricInput ==
    (call.fn \in {"cholesky_decompose", "inverse"}
       /\ (Symmetric(call.before) \/ Raised(call.ret))) => C14_CholeskyAndInverse

\* a positive definite matrix was factorized and inverted
C14_InvertedWitness ==
    /\ call.fn = "inverse"
    /\ call.before.rows = 2
    /\ ~Raised(call.ret)
    /\ dot(call.ret.val, call.before) = Ok(Identity(2))

\* C15: for every weight vector whose sum is > 1e-12, normalize yields a vector
\* summing to 1, and a second normalize leaves that vector unchanged.
C15_NormalizeIdempotent ==
    (call.fn = "normalize" /\ FGreater(SumTo(call.weights, Len(call.weights)), TINY)) =>
        /\ ~Raised(call.ret)
        /\ Len(call.ret.val) = Len(call.weights)
        /\ SumTo(call.ret.val, Len(call.ret.val)) = One
        /\ call.again = call.ret

\* C15 witness: a vector with sum > 1e-12 other than 1 was changed by the
\* first normalize and left alone by the second.
C15_Witness ==
    /\ call.fn = "normalize"
    /\ FGreater(Accumulate(call.weights), TINY)
    /\ Accumulate(call.weights) # One
    /\ ~Raised(call.ret)
    /\ call.ret.val # call.weights
    /\ call.again = call.ret

\* C16: the population handed to the next evaluation holds exactly
\* population_size vectors of one entry per asset: floor(population_size / 20)
\* elites, then the children of each iteration two at a time, only the first
\* when one slot remains; in optimise() the population under evaluation has
\* population_size vectors and new_pop never outgrows it.
C16_PopulationSizeKept ==
    /\ call.fn = "next_generation" =>
         LET ps == call.o.population_size
             e == ps \div 20
             nxt == call.ret.val
         IN  /\ Len(nxt) = ps
             /\ \A i \in 1..ps : Len(nxt[i]) = call.o.portfolio.num_assets
             /\ \A i \in (e + 1)..ps :
                  nxt[i] = call.kids[((i - e - 1) \div 2) + 1][((i - e - 1) % 2) + 1]
    /\ pc \in {"eval", "repro", "done"} =>
         /\ Len(population) = cfg.population_size
         /\ \A i \in 1..Len(population) : Len(population[i]) = cfg.portfolio.num_assets
         /\ Len(new_pop) <= cfg.population_size

\* C16 witness: population_size 20 was rebuilt from 1 elite, 9 pairs of
\* children and the first child of a tenth pair.
C16_Witness ==
    /\ call.fn = "next_generation"
    /\ call.o.population_size = 20
    /\ Len(call.ret.val) = 20
    /\ call.ret.val[19] = call.kids[9][2]
    /\ call.ret.val[20] = call.kids[10][1]
    /\ call.kids[10][1] # call.kids[10][2]

\* C16 witness in optimise(): a second generation is evaluated on a full
\* population of odd size.
C16_WitnessOptimise ==
    /\ pc = "eval"
    /\ gen = 1
    /\ cfg.population_size = 1
    /\ Len(population) = 1

\* the number of individuals whose fitness is below f
NumBelow(fit, f) == Cardinality({j \in 1..Len(fit) : FLess(fit[j], f)})

\* C17: the floor(population_size / 20) individuals of lowest fitness are the
\* first floor(population_size / 20) vectors of the next generation, unchanged
\* and in ascending order of fitness.
C17_ElitesCarriedOver ==
    call.fn = "next_generation" =>
        LET ps == call.o.population_size
            e == ps \div 20
            nxt == call.ret.val
        IN  \A k \in 1..e :
              /\ \E i \in 1..ps :
                   /\ nxt[k] = call.population[i]
                   /\ NumBelow(call.fitnesses, call.fitnesses[i]) <= k - 1
              /\ k < e => ~FLess(calculate_fitness(call.o, nxt[k + 1]).val,
                                 calculate_fitness(call.o, nxt[k]).val)

\* C17 witness: of 40 individuals the two best, stored last, lead the next
\* generation, the best first.
C17_Witness ==
    /\ call.fn = "next_generation"
    /\ call.o.population_size = 40
    /\ call.ret.val[1] = call.population[40]
    /\ call.ret.val[2] = call.population[39]
    /\ FLess(call.fitnesses[40], call.fitnesses[39])
    /\ \A i \in 1..38 : FLess(call.fitnesses[39], call.fitnesses[i])

\* some generation has been evaluated
SomeEvaluated == pc \in {"repro", "eval", "done", "error"} /\ lowest_evaluated # PInf

\* C18: once a generation has been evaluated, the tracked best fitness is
\* the fitness of the tracked best vector and the lowest fitness of all
\* individuals evaluated so far; an evaluation changes both, together, exactly
\* when its own best is strictly lower than the tracked best; and optimise()
\* returns the tracked vector.
C18_BestIsConsistent ==
    /\ [](SomeEvaluated =>
            /\ calculate_fitness(cfg, best_weights) = Ok(best_fitness)
            /\ best_fitness = lowest_evaluated)
    /\ [](pc = "done" => result = Ok(best_weights))
    /\ [][(pc = "eval" /\ pc' = "repro") =>
            LET f == fitnesses'[min_element(fitnesses', cfg.population_size)]
            IN  IF FLess(f, best_fitness)
                   THEN /\ best_fitness' = f
                        /\ \E i \in 1..cfg.population_size :
                             population[i] = best_weights' /\ fitnesses'[i] = f
                   ELSE UNCHANGED <<best_fitness, best_weights>>]_vars
    /\ [][~(pc = "eval" /\ pc' = "repro") => UNCHANGED <<best_fitness, best_weights>>]_vars

\* C18 witness: optimise() returned after a generation that improved on the
\* tracked best and a later one that did not.
C18_Witness ==
    /\ pc = "done"
    /\ gen = 2
    /\ result = Ok(best_weights)
    /\ best_weights # <<>>
    /\ best_fitness = lowest_evaluated
    /\ FLess(best_fitness, fitnesses[min_element(fitnesses, cfg.population_size)])

\* v with every entry moved into [lo, hi]
Clipped(v, lo, hi) ==
    [i \in 1..Len(v) |-> IF FLess(v[i], lo) THEN lo ELSE IF FGreater(v[i], hi) THEN hi ELSE v[i]]

\* v divided by its sum
Scaled(v) == [i \in 1..Len(v) |-> FDiv(v[i], SumTo(v, Len(v)))]

\* C19 as stated: an initial individual is the N uniform draws, clipped to
\* [lower, upper] as drawn, then renormalized once to sum to 1.
C19_InitialFromRawDraws ==
    call.fn = "initial_individual" =>
        LET clipped == Clipped(call.draws, call.o.lower_bound, call.o.upper_bound)
        IN  IF FLess(SumTo(clipped, Len(clipped)), TINY)
               THEN Raised(call.ret)
               ELSE call.ret = Ok(Scaled(clipped))

\* C19 amended: an initial individual is the N uniform draws scaled to sum to 1
\* (or all 1/N when their sum is below 1e-12), then clipped to [lower, upper],
\* then renormalized: the clipping is applied to the normalized values.
C19_InitialFromNormalizedDraws ==
    call.fn = "initial_individual" =>
        LET n == Len(call.draws)
            normalized == IF FLess(SumTo(call.draws, n), TINY)
                             THEN [i \in 1..n |-> Q(1, n)]
                             ELSE Scaled(call.draws)
            clipped == Clipped(normalized, call.o.lower_bound, call.o.upper_bound)
        IN  IF FLess(SumTo(clipped, n), TINY)
               THEN Raised(call.ret)
               ELSE /\ call.ret = Ok(Scaled(clipped))
                    /\ SumTo(call.ret.val, n) = One

\* C19 witness: draws (0.9, 0.3) under bounds [0, 0.5] became (2/3, 1/3), by
\* way of (0.75, 0.25) and (0.5, 0.25); clipping the raw draws gives (0.625, 0.375).
C19_Witness ==
    /\ call.fn = "initial_individual"
    /\ call.draws = <<Q(9, 10), Q(3, 10)>>
    /\ call.o.upper_bound = Q(1, 2)
    /\ call.ret = Ok(<<Q(2, 3), Q(1, 3)>>)

\* the genes of a mutate call after the noise of the selected genes is added
WithNoise(individual, hits) ==
    [i \in 1..Len(individual) |->
        IF hits[i][1] THEN FAdd(individual[i], hits[i][2]) ELSE individual[i]]

\* C20: mutate clips the vector to [lower, upper] and renormalizes it when at
\* least one gene was selected for noise, and only then: with no gene selected
\* the individual comes back exactly as it went in, unclipped and unscaled.
C20_RenormalizesIffMutated ==
    call.fn = "mutate" =>
        LET noisy == WithNoise(call.individual, call.hits)
            clipped == Clipped(noisy, call.o.lower_bound, call.o.upper_bound)
        IN  IF \E i \in 1..Len(call.hits) : call.hits[i][1]
               THEN IF FLess(SumTo(clipped, Len(clipped)), TINY)
                       THEN Raised(call.ret)
                       ELSE call.ret = Ok(Scaled(clipped))
               ELSE call.ret = Ok(call.individual)

\* C20 witness: (1, 1) with noise -0.25 on the first gene only, under bounds
\* [0, 0.5], was clipped to (0.5, 0.5) and kept that sum of 1.
C20_Witness ==
    /\ call.fn = "mutate"
    /\ call.individual = <<One, One>>
    /\ call.hits = << <<TRUE, Q(-1, 4)>>, <<FALSE, Zero>> >>
    /\ call.o.upper_bound = Q(1, 2)
    /\ call.ret = Ok(<<Q(1, 2), Q(1, 2)>>)

\* C20 witness of the other side: (1, 1) with no gene selected came back as
\* (1, 1), outside [0, 0.5] and summing to 2.
C20_WitnessUntouched ==
    /\ call.fn = "mutate"
    /\ call.individual = <<One, One>>
    /\ \A i \in 1..2 : ~call.hits[i][1]
    /\ call.o.upper_bound = Q(1, 2)
    /\ call.ret = Ok(<<One, One>>)

\* the children of a crossover call before normalize: gene i of child1 is
\* parent1's, and of child2 parent2's, unless the coin swapped them
SwappedChildren ==
    [c1 |-> [i \in 1..Len(call.parent1) |->
                IF call.coins[i] THEN call.parent2[i] ELSE call.parent1[i]],
     c2 |-> [i \in 1..Len(call.parent1) |->
                IF call.coins[i] THEN call.parent1[i] ELSE call.parent2[i]]]

\* C21: crossover returns child1 and child2 that are, gene by gene, the
\* parents' two values kept or swapped, each child then divided by its sum so
\* that it sums to 1.
C21_CrossoverSwapsThenNormalizes ==
    call.fn = "crossover" =>
        /\ ~Raised(call.ret)
        /\ call.ret.val = [c1 |-> Scaled(SwappedChildren.c1), c2 |-> Scaled(SwappedChildren.c2)]
        /\ SumTo(call.ret.val.c1, Len(call.parent1)) = One
        /\ SumTo(call.ret.val.c2, Len(call.parent2)) = One

\* what holds of C21: the same statement for the calls whose swapped children
\* both sum to 1e-12 or more; the others end in normalize's exception.
C21_WhenBothSumsPositive ==
    call.fn = "crossover" =>
        IF \/ FLess(SumTo(SwappedChildren.c1, Len(call.parent1)), TINY)
           \/ FLess(SumTo(SwappedChildren.c2, Len(call.parent2)), TINY)
           THEN Raised(call.ret)
           ELSE C21_CrossoverSwapsThenNormalizes

\* a crossover that swapped one gene of two and returned two children that
\* sum to 1: (1/2, 1/2) and (1/4, 3/4) became (1/3, 2/3) and (2/5, 3/5)
C21_SwappedWitness ==
    /\ call.fn = "crossover"
    /\ call.parent1 = <<Q(1, 2), Q(1, 2)>>
    /\ call.parent2 = <<Q(1, 4), Q(3, 4)>>
    /\ call.coins = <<TRUE, FALSE>>
    /\ call.ret = Ok([c1 |-> <<Q(1, 3), Q(2, 3)>>, c2 |-> <<Q(2, 5), Q(3, 5)>>])

\* w has no negative gene and sums to 1
OnSimplex(w) ==
    /\ \A i \in 1..Len(w) : FLeq(Zero, w[i])
    /\ SumTo(w, Len(w)) = One

AllOnSimplex(pop) == \A i \in 1..Len(pop) : OnSimplex(pop[i])

\* C22: every individual of the population optimise() holds, and of the next
\* one it is filling (elites and children alike), has non-negative genes and
\* sums to 1, in the initial population and in every later generation.
C22_PopulationOnSimplex ==
    (FLeq(Zero, cfg.lower_bound) /\ FLeq(cfg.lower_bound, cfg.upper_bound)) =>
        /\ AllOnSimplex(population)
        /\ AllOnSimplex(new_pop)

\* C22 witness: a second generation is about to be evaluated that holds a
\* vector with thirds, which no initial draw gives: a child of crossover or
\* of a mutation.
C22_Witness ==
    /\ pc = "eval"
    /\ gen = 1
    /\ gen < cfg.generations
    /\ cfg.population_size = 2
    /\ \E i \in 1..2 : population[i][1][2] = 3
    /\ AllOnSimplex(population)

\* C22 step by step, for bounds other than [0, 1] too: an initial individual
\* is on the simplex; crossover and mutate return vectors on the simplex when
\* given such vectors; the next generation of a population on the simplex,
\* filled with children on the simplex, is on the simplex.
C22_StepsKeepSimplex ==
    /\ (call.fn = "initial_individual" /\ ~Raised(call.ret)) => OnSimplex(call.ret.val)
    /\ (call.fn = "crossover" /\ ~Raised(call.ret)
          /\ OnSimplex(call.parent1) /\ OnSimplex(call.parent2)) =>
            OnSimplex(call.ret.val.c1) /\ OnSimplex(call.ret.val.c2)
    /\ (call.fn = "mutate" /\ ~Raised(call.ret) /\ OnSimplex(call.individual)) =>
            OnSimplex(call.ret.val)
    /\ (call.fn = "next_generation" /\ AllOnSimplex(call.population)
          /\ \A it \in 1..Len(call.kids) :
                OnSimplex(call.kids[it][1]) /\ OnSimplex(call.kids[it][2])) =>
            AllOnSimplex(call.ret.val)

\* a mutation under bounds [0.25, 1] took noise -0.25 on the zero gene of
\* (0, 1) and returned (1/5, 4/5)
C22_StepWitness ==
    /\ call.fn = "mutate"
    /\ call.individual = <<Zero, One>>
    /\ call.o.lower_bound = Q(1, 4)
    /\ call.hits = << <<TRUE, Q(-1, 4)>>, <<FALSE, Zero>> >>
    /\ call.ret = Ok(<<Q(1, 5), Q(4, 5)>>)

\* a mutate call that selected a gene and returned, under bounds with
\* 0 <= lower < upper <= 1
MutatedCall ==
    /\ call.fn = "mutate"
    /\ \E i \in 1..Len(call.hits) : call.hits[i][1]
    /\ ~Raised(call.ret)
    /\ FLeq(Zero, call.o.lower_bound)
    /\ FLess(call.o.lower_bound, call.o.upper_bound)
    /\ FLeq(call.o.upper_bound, One)

\* C23 as stated: after a mutation that changed a gene, every gene of the
\* child lies within [lower_bound, upper_bound].
C23_MutatedWithinBounds ==
    MutatedCall =>
        \A i \in 1..Len(call.ret.val) :
            /\ FLeq(call.o.lower_bound, call.ret.val[i])
            /\ FLeq(call.ret.val[i], call.o.upper_bound)

\* C23 amended: after a mutation that changed a gene, every gene of the child
\* lies within [lower / S, upper / S], S being the sum of the clipped genes,
\* and within [0, 1]; it lies within [lower, upper] when the bounds are [0, 1].
C23_MutatedWithinScaledBounds ==
    MutatedCall =>
        LET clipped == Clipped(WithNoise(call.individual, call.hits),
                               call.o.lower_bound, call.o.upper_bound)
            S == SumTo(clipped, Len(clipped))
        IN  \A i \in 1..Len(call.ret.val) :
              /\ FLeq(FDiv(call.o.lower_bound, S), call.ret.val[i])
              /\ FLeq(call.ret.val[i], FDiv(call.o.upper_bound, S))
              /\ FLeq(Zero, call.ret.val[i])
              /\ FLeq(call.ret.val[i], One)
              /\ (call.o.lower_bound = Zero /\ call.o.upper_bound = One) =>
                    /\ FLeq(call.o.lower_bound, call.ret.val[i])
                    /\ FLeq(call.ret.val[i], call.o.upper_bound)

\* C23 witness: (1, 0) under bounds [0, 0.5] took noise -0.25 on its first
\* gene, was clipped to (0.5, 0) and renormalized to (1, 0): the first gene
\* is above the upper bound.
C23_Witness ==
    /\ MutatedCall
    /\ call.individual = <<One, Zero>>
    /\ call.o.upper_bound = Q(1, 2)
    /\ call.hits = << <<TRUE, Q(-1, 4)>>, <<FALSE, Zero>> >>
    /\ call.ret = Ok(<<One, Zero>>)

\* the same with three assets and the lower bound: (1/2, 1/4, 1/4) under
\* bounds [0.25, 1] with noise +0.25 on the first gene became (3/5, 1/5, 1/5)
C23_WitnessBelowLower ==
    /\ MutatedCall
    /\ call.individual = <<Q(1, 2), Q(1, 4), Q(1, 4)>>
    /\ call.o.lower_bound = Q(1, 4)
    /\ call.ret = Ok(<<Q(3, 5), Q(1, 5), Q(1, 5)>>)

\* the fitnesses the next evaluation gives the population a next_generation
\* call returned
NextFitnesses ==
    [i \in 1..Len(call.ret.val) |-> calculate_fitness(call.o, call.ret.val[i]).val]

\* the lowest of n fitnesses
MinFitness(fit, n) == lowest_of(fit, n, PInf)

\* the lowest fitness of the next generation is not above this generation's
NextBestNotWorse ==
    FLeq(MinFitness(NextFitnesses, Len(call.ret.val)),
         MinFitness(call.fitnesses, Len(call.fitnesses)))

\* C24 as stated: for every population_size >= 1, sizes below 20 included,
\* the lowest fitness of generation g + 1 is at most the lowest fitness of
\* generation g.
C24_GenerationBestNeverWorse ==
    (call.fn = "next_generation" /\ call.o.population_size >= 1) => NextBestNotWorse

\* C24 amended: for every population_size >= 20, where at least one elite is
\* carried over, the lowest fitness of generation g + 1 is at most the lowest
\* fitness of generation g.
C24_BestNeverWorseWithElites ==
    (call.fn = "next_generation" /\ call.o.population_size >= 20) => NextBestNotWorse

\* C24 witness: a population of 20 whose every child is worse than its best
\* individual: the elite alone keeps the lowest fitness where it was.
C24_Witness ==
    /\ call.fn = "next_generation"
    /\ call.o.population_size = 20
    /\ \A i \in 2..20 : FLess(MinFitness(call.fitnesses, 20), NextFitnesses[i])
    /\ NextFitnesses[1] = MinFitness(call.fitnesses, 20)
    /\ MinFitness(NextFitnesses, 20) = MinFitness(call.fitnesses, 20)

\* the case C24 misses, with no elite: 19 individuals replaced by children
\* that are all worse than the best of them
C24_WitnessNoElite ==
    /\ call.fn = "next_generation"
    /\ call.o.population_size = 19
    /\ FLess(MinFitness(call.fitnesses, 19), MinFitness(NextFitnesses, 19))

\* the same inside optimise(): the second generation's lowest fitness is above
\* the first generation's
C24_WitnessOptimise ==
    /\ pc = "repro"
    /\ gen = 1
    /\ FLess(lowest_evaluated, MinFitness(fitnesses, cfg.population_size))

====
